---- MODULE Spec2Model ----
(***************************************************************************)
(* Model of the DVS neutron agent (vmware_dvs/agent/dvs_neutron_agent.py): *)
(* the port state tracker (known/added/updated/deleted/booked), the poll   *)
(* loop rpc_loop with full sync, orphan cleanup and process_ports, and the *)
(* asynchronous handlers that run while the loop is blocked in a call.     *)
(*                                                                         *)
(* The agent runs on cooperative green threads: a handler runs only while  *)
(* the poll loop is blocked in a backend call, an RPC or its sleep.  The   *)
(* loop's position pc names the call it is blocked in; the handlers are    *)
(* enabled only at those positions (AtYield).                              *)
(***************************************************************************)
EXTENDS Naturals, FiniteSets, Sequences, TLC

\* ------------------------------------------------------------ bounds
\* Poll-loop iterations explored (iter_num is unbounded in the code).
MaxIter == 2
\* Handler invocations and outside changes explored per behaviour, in the
\* specification of the whole agent (Spec) and in those of the full sync
\* (SpecSync, SpecQuiet).
MaxEvents == 3
MaxSyncEvents == 2
\* Ports present on the backend when the agent starts, in the
\* specification of the whole agent (Spec).
MaxInitPorts == 1
\* The same in the specifications of the full sync alone (SpecSync,
\* SpecQuiet), which run it over several backends.
MaxSyncInitPorts == 2

\* ------------------------------------------------------------ universes
Ports == {"p1", "p2"}
\* A port object whose config.name is None or empty.
NoName == ""
\* The physical networks a configuration may map to a DVS.
PhysNets == {"physnet1", "physnet2"}
\* portgroupKey values of the network containers of a DVS.
Keys == {"pg1", "pg2"}
\* A port object reported by dvs.get_ports().
PortRec == [name : Ports \cup {NoName}, portgroupKey : Keys, connected : BOOLEAN]
\* What the control plane holds for a port identifier.
NeutronStates == {"none", "device", "failed"}
\* Outcome of _lookup_dvs_for_context for the segment of a hook call.
SegmentKinds == {"vlan_mapped", "vlan_unmapped", "not_vlan"}
\* book_port searches network_segments: it may find no segment at all.
BookSegmentKinds == SegmentKinds \cup {"no_segment"}
NoPort == "none"

VARIABLES
    \* network_map (line 90), as the sequence of the physical networks in
    \* the order network_map.items() and network_map.values() iterate
    network_map,
    \* DVSAgent fields
    known_ports, added_ports, updated_ports, deleted_ports, booked_ports,
    fullsync, run_daemon_loop, iter_num,
    \* polling manager's force flag
    force_polling,
    \* position of rpc_loop and its locals
    pc, dvs_idx, connected_ports,
    vsphere_not_connected_ports_maps, network_with_active_ports,
    network_with_known_not_active_ports, neutron_ports, release_todo,
    deleted_local, possible_ports,
    \* the backends and the control plane
    dvs_ports, portgroups, neutron_db,
    \* history: what the program did
    lastOp, sg_log, cycle_start, released, deleted_networks, sync_run,
    window, events_left,
    \* history of the full sync in progress: what each _get_ports_ids call
    \* returned, and the control-plane lookups with their answers
    reported, lookup_log,
    \* history: an AGENT_REVIVED answer has been received since the port
    \* query of the last full sync started
    revive_pending,
    \* history: the ports whose port_delete has been ingested with no
    \* port_update, booking promotion or full-sync observation since
    gone_ports

tracker == <<known_ports, added_ports, updated_ports, deleted_ports, booked_ports>>
flags == <<fullsync, run_daemon_loop, iter_num, force_polling>>
sync_locals == <<dvs_idx, connected_ports, vsphere_not_connected_ports_maps,
                 network_with_active_ports, network_with_known_not_active_ports,
                 neutron_ports, release_todo>>
cycle_locals == <<deleted_local, possible_ports>>
backend == <<dvs_ports, portgroups, neutron_db>>
history == <<lastOp, sg_log, cycle_start, released, deleted_networks, sync_run,
             window, events_left>>
sync_history == <<reported, lookup_log>>
vars == <<network_map, tracker, flags, pc, sync_locals, cycle_locals, backend,
          history, sync_history, revive_pending, gone_ports>>

\* ------------------------------------------------------------ helpers
\* What the last step did: the operation, the port it was about and how
\* the operation ended ("ok", "skipped" or the exception it raised).
Op(name, port, result) == [op |-> name, port |-> port, result |-> result]

\* Positions at which rpc_loop is blocked in a call (or asleep): the only
\* places another green thread can run.
YieldPcs == {"get_ports_ids", "get_ports", "lookup", "release",
             "delete_networks", "remove_filter", "setup_filters", "wait"}
AtYield == pc \in YieldPcs

\* Where in the pending window an add is observed, relative to the cycle
\* that process_ports is running (if any).
AddPhase == IF pc = "remove_filter" THEN "add_after_del_snap"
            ELSE IF pc = "setup_filters" THEN "add_after_add_snap"
            ELSE "add_before"

\* dvs._get_ports_ids(): the names of the connected ports of a DVS.
get_ports_ids(d) == {r.name : r \in {q \in dvs_ports[d] : q.connected /\ q.name # NoName}}

\* dvs.get_ports(False): the whole port inventory of a DVS.
get_ports(d) == dvs_ports[d]

EmptyActive == [d \in PhysNets |-> {}]
EmptyKnownNotActive == [d \in PhysNets |-> [p \in {} |-> "pg1"]]
EmptyMaps == [p \in {} |-> "physnet1"]

\* dvs.release_port({'id': p}): the port named p on DVS d loses its name
\* and its connection; a DVS without such a port is left as it is.
release_port(inv, d, p) ==
    [inv EXCEPT ![d] = {IF r.name = p
                        THEN [r EXCEPT !.name = NoName, !.connected = FALSE]
                        ELSE r : r \in inv[d]}]

\* dvs.book_port(network, p, segment): a port of the network's container
\* on DVS d takes the name p (not yet connected).
dvs_book_port(inv, d, key, p) ==
    IF \E r \in inv[d] : r.name = p
    THEN inv
    ELSE [inv EXCEPT ![d] = @ \cup {[name |-> p, portgroupKey |-> key,
                                     connected |-> FALSE]}]

\* ------------------------------------------------------------ handlers
\* port_update: only queues the identifier.
port_update(p) ==
    /\ AtYield /\ events_left > 0
    /\ updated_ports' = updated_ports \cup {p}
    /\ gone_ports' = gone_ports \ {p}
    /\ lastOp' = Op("port_update", p, "ok")
    /\ events_left' = events_left - 1
    /\ UNCHANGED <<known_ports, added_ports, deleted_ports, booked_ports, flags,
                   pc, sync_locals, cycle_locals, backend, sg_log, cycle_start,
                   released, deleted_networks, sync_run, window>>
    /\ UNCHANGED network_map
    /\ UNCHANGED revive_pending
    /\ UNCHANGED sync_history

\* port_delete, lines 378-380: a known port moves to deleted.
port_delete_known(known, deleted, p) ==
    IF p \in known THEN <<known \ {p}, deleted \cup {p}>> ELSE <<known, deleted>>

\* As port_delete would be without lines 381-382.
port_delete_added_kept(added, p) == added

\* port_delete, lines 381-382: a pending add is dropped.
port_delete_added(added, p) == added \ {p}

port_delete(p) ==
    /\ AtYield /\ events_left > 0
    /\ known_ports' = port_delete_known(known_ports, deleted_ports, p)[1]
    /\ deleted_ports' = port_delete_known(known_ports, deleted_ports, p)[2]
    /\ added_ports' = port_delete_added(added_ports, p)
    /\ window' = [window EXCEPT ![p] = "deleted"]
    /\ gone_ports' = gone_ports \cup {p}
    /\ lastOp' = Op("port_delete", p, "ok")
    /\ events_left' = events_left - 1
    /\ UNCHANGED <<updated_ports, booked_ports, flags, pc, sync_locals,
                   cycle_locals, backend, sg_log, cycle_start, released,
                   deleted_networks, sync_run>>
    /\ UNCHANGED network_map
    /\ UNCHANGED revive_pending
    /\ UNCHANGED sync_history

\* _lookup_dvs_for_context: the DVS of a VLAN segment on a mapped physical
\* network, else the exception raised.
lookup_dvs_for_context(kind) ==
    CASE kind = "vlan_mapped" -> "ok"
      [] kind = "vlan_unmapped" -> "NoDVSForPhysicalNetwork"
      [] kind = "not_vlan" -> "NotSupportedNetworkType"
      [] OTHER -> "no_segment"

\* book_port: the lookups raise unhandled; a found DVS books the port and
\* the identifier is recorded in booked_ports.
book_port(p, d, kind) ==
    /\ AtYield /\ events_left > 0
    /\ IF lookup_dvs_for_context(kind) = "ok"
       THEN /\ \E key \in portgroups[d] :
                 dvs_ports' = dvs_book_port(dvs_ports, d, key, p)
            /\ booked_ports' = booked_ports \cup {p}
       ELSE UNCHANGED <<dvs_ports, booked_ports>>
    /\ lastOp' = Op("book_port", p, lookup_dvs_for_context(kind))
    /\ events_left' = events_left - 1
    /\ UNCHANGED <<known_ports, added_ports, updated_ports, deleted_ports, flags,
                   pc, sync_locals, cycle_locals, portgroups, neutron_db, sg_log,
                   cycle_start, released, deleted_networks, sync_run, window>>
    /\ UNCHANGED network_map
    /\ UNCHANGED gone_ports
    /\ UNCHANGED revive_pending
    /\ UNCHANGED sync_history

\* As lines 159-161 would be without the discard of line 161.
promote_booked_kept(added, booked, p) ==
    IF p \in booked THEN <<added \cup {p}, booked>> ELSE <<added, booked>>

\* update_port_postcommit, lines 159-161: a booked identifier is promoted.
promote_booked(added, booked, p) ==
    IF p \in booked THEN <<added \cup {p}, booked \ {p}>> ELSE <<added, booked>>

\* update_port_postcommit: NotSupportedNetworkType is logged, an unmapped
\* physical network raises InvalidSystemState, else a booked port is
\* promoted (the admin-state toggle that follows changes nothing modelled).
update_port_postcommit(p, kind) ==
    /\ AtYield /\ events_left > 0
    /\ IF lookup_dvs_for_context(kind) = "ok"
       THEN /\ added_ports' = promote_booked(added_ports, booked_ports, p)[1]
            /\ booked_ports' = promote_booked(added_ports, booked_ports, p)[2]
            /\ window' = [window EXCEPT ![p] =
                             IF @ = "deleted" /\ p \in added_ports'
                             THEN AddPhase ELSE @]
            /\ gone_ports' = IF p \in booked_ports THEN gone_ports \ {p}
                              ELSE gone_ports
       ELSE UNCHANGED <<added_ports, booked_ports, window, gone_ports>>
    /\ lastOp' = Op("update_port_postcommit", p,
                    CASE lookup_dvs_for_context(kind) = "ok" -> "ok"
                      [] lookup_dvs_for_context(kind) = "NotSupportedNetworkType"
                           -> "logged"
                      [] OTHER -> "InvalidSystemState")
    /\ events_left' = events_left - 1
    /\ UNCHANGED <<known_ports, updated_ports, deleted_ports, flags, pc,
                   sync_locals, cycle_locals, backend, sg_log, cycle_start,
                   released, deleted_networks, sync_run>>
    /\ UNCHANGED network_map
    /\ UNCHANGED revive_pending
    /\ UNCHANGED sync_history

\* delete_port_postcommit: as above, and a resolved DVS releases the port.
delete_port_postcommit(p, d, kind) ==
    /\ AtYield /\ events_left > 0
    /\ IF lookup_dvs_for_context(kind) = "ok"
       THEN dvs_ports' = release_port(dvs_ports, d, p)
       ELSE UNCHANGED dvs_ports
    /\ lastOp' = Op("delete_port_postcommit", p,
                    CASE lookup_dvs_for_context(kind) = "ok" -> "ok"
                      [] lookup_dvs_for_context(kind) = "NotSupportedNetworkType"
                           -> "logged"
                      [] OTHER -> "InvalidSystemState")
    /\ events_left' = events_left - 1
    /\ UNCHANGED <<tracker, flags, pc, sync_locals, cycle_locals, portgroups,
                   neutron_db, sg_log, cycle_start, released, deleted_networks,
                   sync_run, window>>
    /\ UNCHANGED network_map
    /\ UNCHANGED gone_ports
    /\ UNCHANGED revive_pending
    /\ UNCHANGED sync_history

\* _report_state: the heartbeat; an AGENT_REVIVED answer asks for a full
\* sync, a failing report is logged.
report_state(answer) ==
    /\ AtYield /\ events_left > 0
    /\ fullsync' = IF answer = "revived" THEN TRUE ELSE fullsync
    /\ revive_pending' = IF answer = "revived" THEN TRUE ELSE revive_pending
    /\ lastOp' = Op("report_state", NoPort, answer)
    /\ events_left' = events_left - 1
    /\ UNCHANGED <<tracker, run_daemon_loop, iter_num, force_polling, pc,
                   sync_locals, cycle_locals, backend, sg_log, cycle_start,
                   released, deleted_networks, sync_run, window>>
    /\ UNCHANGED network_map
    /\ UNCHANGED gone_ports
    /\ UNCHANGED sync_history

\* _handle_sigterm: a signal handler, it runs at any point of the loop.
handle_sigterm ==
    /\ pc # "done" /\ run_daemon_loop /\ events_left > 0
    /\ run_daemon_loop' = FALSE
    /\ lastOp' = Op("handle_sigterm", NoPort, "ok")
    /\ events_left' = events_left - 1
    /\ UNCHANGED <<tracker, fullsync, iter_num, force_polling, pc, sync_locals,
                   cycle_locals, backend, sg_log, cycle_start, released,
                   deleted_networks, sync_run, window>>
    /\ UNCHANGED network_map
    /\ UNCHANGED gone_ports
    /\ UNCHANGED revive_pending
    /\ UNCHANGED sync_history

\* ------------------------------------------------------------ outside world
\* A virtual machine attaches to the port named p on DVS d.
vm_connect(p, d) ==
    /\ AtYield /\ events_left > 0
    /\ \E r \in dvs_ports[d] : r.name = p /\ ~r.connected
    /\ dvs_ports' = [dvs_ports EXCEPT ![d] =
                        {IF r.name = p THEN [r EXCEPT !.connected = TRUE] ELSE r
                           : r \in @}]
    /\ lastOp' = Op("vm_connect", p, "ok")
    /\ events_left' = events_left - 1
    /\ UNCHANGED <<tracker, flags, pc, sync_locals, cycle_locals, portgroups,
                   neutron_db, sg_log, cycle_start, released, deleted_networks,
                   sync_run, window>>
    /\ UNCHANGED network_map
    /\ UNCHANGED gone_ports
    /\ UNCHANGED revive_pending
    /\ UNCHANGED sync_history

\* The control plane creates, fails or forgets the port p.
neutron_change(p, st) ==
    /\ AtYield /\ events_left > 0
    /\ neutron_db[p] # st
    /\ neutron_db' = [neutron_db EXCEPT ![p] = st]
    /\ lastOp' = Op("neutron_change", p, "ok")
    /\ events_left' = events_left - 1
    /\ UNCHANGED <<tracker, flags, pc, sync_locals, cycle_locals, dvs_ports,
                   portgroups, sg_log, cycle_start, released, deleted_networks,
                   sync_run, window>>
    /\ UNCHANGED network_map
    /\ UNCHANGED gone_ports
    /\ UNCHANGED revive_pending
    /\ UNCHANGED sync_history

\* ------------------------------------------------------------ full sync
\* As line 322 would be without the subtraction of known_ports.
full_sync_added_all(connected, known) == connected

\* rpc_loop, line 322: the pending adds after a full sync.
full_sync_added(connected, known) == connected \ known

\* get_devices_details_list_and_failed_devices: one entry per queried
\* device; an entry carries a port_id only when the control plane holds the
\* port, and a device whose lookup failed is listed in failed_devices.
get_devices_details_list_and_failed_devices(devices) ==
    [devices |-> {[device |-> q,
                   port_id |-> IF neutron_db[q] = "device" THEN q ELSE NoName]
                    : q \in {x \in devices : neutron_db[x] # "failed"}},
     failed_devices |-> {[device |-> q, port_id |-> q]
                    : q \in {x \in devices : neutron_db[x] = "failed"}}]

\* Lines 288-292: the port_ids of both lists, empty ones left out.
neutron_ports_of(details) ==
    {e.port_id : e \in {x \in details.devices \cup details.failed_devices
                          : x.port_id # NoName}}

\* Lines 268-276, per DVS: the named ports that are not connected.
not_connected_dvs_ports(ports, connected) ==
    {r.name : r \in {q \in ports : q.name # NoName /\ q.name \notin connected}}

\* Line 276, per DVS: the group key of every named port is recorded as
\* active, connected or not.
scan_active_keys(ports, connected) ==
    {r.portgroupKey : r \in {q \in ports : q.name # NoName}}

\* As lines 294-297 would be without the test of line 295.
ports_to_release_unchecked(maps, recognized) == DOMAIN maps

\* Lines 294-297: the identifiers released at the backend.
ports_to_release(maps, recognized) == {q \in DOMAIN maps : q \notin recognized}

\* dvs.delete_networks_without_active_ports(active): the containers whose
\* key is not listed are deleted, with their ports.
delete_networks_without_active_ports(groups, active) == groups \cap active

\* As line 314 would be with "while True".
loop_test_always(run) == TRUE

\* rpc_loop, line 314: the test of the while loop.
loop_test(run) == run

\* rpc_loop, lines 314-321: the loop test and the start of a full sync.
rpc_loop_enter ==
    /\ pc = "loop"
    /\ IF ~loop_test(run_daemon_loop)
       THEN /\ pc' = "done"
            /\ UNCHANGED <<dvs_idx, connected_ports, released, deleted_networks,
                           sync_run, sync_history, revive_pending>>
       ELSE /\ iter_num < MaxIter
            /\ IF fullsync
               THEN /\ pc' = "get_ports_ids"
                    /\ dvs_idx' = 1
                    /\ connected_ports' = {}
                    /\ released' = {}
                    /\ deleted_networks' = {}
                    /\ sync_run' = sync_run + 1
                    /\ reported' = [d \in PhysNets |-> {}]
                    /\ lookup_log' = <<>>
                    /\ revive_pending' = FALSE
               ELSE /\ pc' = "has_updates"
                    /\ UNCHANGED <<dvs_idx, connected_ports, released,
                                   deleted_networks, sync_run, sync_history,
                                   revive_pending>>
    /\ lastOp' = Op("rpc_loop", NoPort, "ok")
    /\ UNCHANGED <<tracker, flags, vsphere_not_connected_ports_maps,
                   network_with_active_ports,
                   network_with_known_not_active_ports, neutron_ports,
                   release_todo, cycle_locals, backend, sg_log, cycle_start,
                   window, events_left>>
    /\ UNCHANGED network_map
    /\ UNCHANGED gone_ports

\* _get_dvs_ports, line 390: the identifiers of one more DVS.
ports_update(ports, ids) == ports \cup ids

\* _get_dvs_ports, one DVS per step; after the last DVS line 322 sets
\* added_ports and the cleanup starts with empty locals.
get_dvs_ports ==
    /\ pc = "get_ports_ids"
    /\ LET ids == get_ports_ids(network_map[dvs_idx])
           conn == ports_update(connected_ports, ids)
       IN
       /\ connected_ports' = conn
       /\ reported' = [reported EXCEPT ![network_map[dvs_idx]] = ids]
       /\ UNCHANGED lookup_log
       /\ IF dvs_idx < Len(network_map)
          THEN /\ dvs_idx' = dvs_idx + 1
               /\ lastOp' = Op("get_dvs_ports", NoPort, "ok")
               /\ UNCHANGED <<pc, added_ports, window, gone_ports>>
          ELSE /\ dvs_idx' = 1
               /\ pc' = "get_ports"
               /\ added_ports' = full_sync_added(conn, known_ports)
               /\ lastOp' = Op("full_sync_added", NoPort, "ok")
               /\ gone_ports' = gone_ports \ conn
               /\ window' = [p \in Ports |->
                    IF window[p] = "deleted" /\ p \in added_ports'
                    THEN "add_before"
                    ELSE IF window[p] \notin {"none", "deleted"}
                            /\ p \notin added_ports'
                         THEN "deleted" ELSE window[p]]
    /\ vsphere_not_connected_ports_maps' = EmptyMaps
    /\ network_with_active_ports' = EmptyActive
    /\ network_with_known_not_active_ports' = EmptyKnownNotActive
    /\ neutron_ports' = {}
    /\ release_todo' = {}
    /\ UNCHANGED <<known_ports, updated_ports, deleted_ports, booked_ports,
                   flags, cycle_locals, backend, sg_log, cycle_start, released,
                   deleted_networks, sync_run, events_left>>
    /\ UNCHANGED network_map
    /\ UNCHANGED revive_pending

\* _clean_up_vsphere_extra_resources, lines 262-279, one DVS per step.
clean_up_scan ==
    /\ pc = "get_ports"
    /\ LET d == network_map[dvs_idx]
           ports == get_ports(d)
           nc == not_connected_dvs_ports(ports, connected_ports)
           maps == [q \in DOMAIN vsphere_not_connected_ports_maps \cup nc |->
                      IF q \in nc THEN d
                      ELSE vsphere_not_connected_ports_maps[q]]
       IN
       /\ network_with_known_not_active_ports' =
            [network_with_known_not_active_ports EXCEPT ![d] =
               [q \in nc |-> (CHOOSE r \in ports : r.name = q).portgroupKey]]
       /\ network_with_active_ports' =
            [network_with_active_ports EXCEPT ![d] =
               scan_active_keys(ports, connected_ports)]
       /\ vsphere_not_connected_ports_maps' = maps
       /\ IF dvs_idx < Len(network_map)
          THEN /\ dvs_idx' = dvs_idx + 1
               /\ UNCHANGED pc
          ELSE /\ dvs_idx' = 1
               /\ pc' = IF DOMAIN maps # {} THEN "lookup" ELSE "delete_networks"
    /\ lastOp' = Op("clean_up_scan", NoPort, "ok")
    /\ UNCHANGED <<tracker, flags, connected_ports, neutron_ports, release_todo,
                   cycle_locals, backend, sg_log, cycle_start, released,
                   deleted_networks, sync_run, window, events_left>>
    /\ UNCHANGED network_map
    /\ UNCHANGED gone_ports
    /\ UNCHANGED revive_pending
    /\ UNCHANGED sync_history

\* Lines 281-300: the batched control-plane lookup; recognized identifiers
\* keep their group key active, the others are queued for release.
clean_up_lookup ==
    /\ pc = "lookup"
    /\ LET maps == vsphere_not_connected_ports_maps
           details == get_devices_details_list_and_failed_devices(DOMAIN maps)
           recognized == neutron_ports_of(details)
       IN
       /\ neutron_ports' = recognized
       /\ lookup_log' = Append(lookup_log, [query |-> DOMAIN maps,
                                            answer |-> details])
       /\ UNCHANGED reported
       /\ release_todo' = ports_to_release(maps, recognized)
       /\ network_with_active_ports' =
            [d \in PhysNets |-> network_with_active_ports[d] \cup
               {network_with_known_not_active_ports[d][q] :
                  q \in {x \in DOMAIN maps : maps[x] = d /\ x \in recognized}}]
       /\ pc' = IF release_todo' # {} THEN "release" ELSE "delete_networks"
    /\ lastOp' = Op("clean_up_lookup", NoPort, "ok")
    /\ UNCHANGED <<tracker, flags, dvs_idx, connected_ports,
                   vsphere_not_connected_ports_maps,
                   network_with_known_not_active_ports, cycle_locals, backend,
                   sg_log, cycle_start, released, deleted_networks, sync_run,
                   window, events_left>>
    /\ UNCHANGED network_map
    /\ UNCHANGED gone_ports
    /\ UNCHANGED revive_pending

\* Lines 296-297: one release_port call per step.
clean_up_release ==
    /\ pc = "release"
    /\ LET q == CHOOSE x \in release_todo : TRUE
           d == vsphere_not_connected_ports_maps[q]
       IN
       /\ dvs_ports' = release_port(dvs_ports, d, q)
       /\ released' = released \cup {<<d, q>>}
       /\ release_todo' = release_todo \ {q}
       /\ pc' = IF release_todo' = {} THEN "delete_networks" ELSE "release"
       /\ lastOp' = Op("release_port", q, "ok")
    /\ UNCHANGED <<tracker, flags, dvs_idx, connected_ports,
                   vsphere_not_connected_ports_maps, network_with_active_ports,
                   network_with_known_not_active_ports, neutron_ports,
                   cycle_locals, portgroups, neutron_db, sg_log, cycle_start,
                   deleted_networks, sync_run, window, events_left>>
    /\ UNCHANGED network_map
    /\ UNCHANGED gone_ports
    /\ UNCHANGED revive_pending
    /\ UNCHANGED sync_history

\* Lines 302-304, one DVS per step; after the last one rpc_loop clears
\* fullsync and forces polling (lines 324-325).
clean_up_delete_networks ==
    /\ pc = "delete_networks"
    /\ LET d == network_map[dvs_idx]
           kept == delete_networks_without_active_ports(
                       portgroups[d], network_with_active_ports[d])
       IN
       /\ portgroups' = [portgroups EXCEPT ![d] = kept]
       /\ dvs_ports' = [dvs_ports EXCEPT ![d] =
                           {r \in @ : r.portgroupKey \in kept}]
       /\ deleted_networks' = deleted_networks \cup
                                 {<<d, k>> : k \in portgroups[d] \ kept}
    /\ IF dvs_idx < Len(network_map)
       THEN /\ dvs_idx' = dvs_idx + 1
            /\ UNCHANGED <<pc, fullsync, force_polling>>
       ELSE /\ dvs_idx' = 1
            /\ pc' = "has_updates"
            /\ fullsync' = FALSE
            /\ force_polling' = TRUE
    /\ lastOp' = Op("delete_networks", NoPort, "ok")
    /\ UNCHANGED <<tracker, run_daemon_loop, iter_num, connected_ports,
                   vsphere_not_connected_ports_maps, network_with_active_ports,
                   network_with_known_not_active_ports, neutron_ports,
                   release_todo, cycle_locals, neutron_db, sg_log, cycle_start,
                   released, sync_run, window, events_left>>
    /\ UNCHANGED network_map
    /\ UNCHANGED gone_ports
    /\ UNCHANGED revive_pending
    /\ UNCHANGED sync_history

\* ------------------------------------------------------------ incremental
\* _agent_has_updates: polling required (always so when forced; reading
\* the flag clears it), or a firewall refresh is needed, or updated_ports
\* or deleted_ports is not empty.  polled stands for what the polling
\* manager and sg_agent.firewall_refresh_needed() answer.
\* As _agent_has_updates would answer if line 325 forced nothing.
agent_has_updates_unforced(polled) ==
    polled \/ updated_ports # {} \/ deleted_ports # {}

agent_has_updates(polled) ==
    polled \/ force_polling \/ updated_ports # {} \/ deleted_ports # {}

rpc_loop_has_updates ==
    /\ pc = "has_updates"
    /\ \E polled \in BOOLEAN :
          pc' = IF agent_has_updates(polled) THEN "process_ports" ELSE "wait"
    /\ force_polling' = FALSE
    /\ lastOp' = Op("agent_has_updates", NoPort, "ok")
    /\ UNCHANGED <<tracker, fullsync, run_daemon_loop, iter_num, sync_locals,
                   cycle_locals, backend, sg_log, cycle_start, released,
                   deleted_networks, sync_run, window, events_left>>
    /\ UNCHANGED network_map
    /\ UNCHANGED gone_ports
    /\ UNCHANGED revive_pending
    /\ UNCHANGED sync_history

RemoveCall(ports) ==
    [call |-> "remove_devices_filter", ports |-> ports, updated |-> {}]
SetupCall(new, updated) ==
    [call |-> "setup_port_filters", ports |-> new, updated |-> updated]

\* As lines 359-360 would be without the assignment of line 360.
deleted_snapshot_not_cleared(deleted) == <<deleted, deleted>>

\* process_ports, lines 359-360: the snapshot of deleted_ports and what is
\* left in deleted_ports.
deleted_snapshot(deleted) == <<deleted, deleted \ deleted>>

\* As lines 362-366 would be if the else branch were always taken.
added_snapshot_skipped(added) == <<{}, added>>

\* process_ports, lines 362-366: the snapshot of added_ports and what is
\* left in added_ports.
added_snapshot(added) == <<added, {}>>

\* As line 369 would be with = in the place of |=.
merge_known_assigned(known, possible) == possible

\* As line 369 would be if updated ports were promoted as well.
merge_known_with_updated(known, possible) == known \cup possible \cup updated_ports

\* process_ports, line 369.
merge_known(known, possible) == known \cup possible

\* process_ports, lines 358-361: with deleted ports pending, they are
\* snapshotted and cleared and remove_devices_filter is called.
process_ports_deleted ==
    /\ pc = "process_ports"
    /\ deleted_ports # {}
    /\ deleted_local' = deleted_snapshot(deleted_ports)[1]
    /\ deleted_ports' = deleted_snapshot(deleted_ports)[2]
    /\ sg_log' = <<RemoveCall(deleted_local')>>
    /\ cycle_start' = [ran |-> TRUE, added |-> added_ports,
                       deleted |-> deleted_ports]
    /\ pc' = "remove_filter"
    /\ lastOp' = Op("remove_devices_filter", NoPort, "ok")
    /\ UNCHANGED <<known_ports, added_ports, updated_ports, booked_ports, flags,
                   sync_locals, possible_ports, backend, released,
                   deleted_networks, sync_run, window, events_left>>
    /\ UNCHANGED network_map
    /\ UNCHANGED gone_ports
    /\ UNCHANGED revive_pending
    /\ UNCHANGED sync_history

\* process_ports, lines 362-368: added_ports is snapshotted and cleared and
\* setup_port_filters is called; reached directly when nothing is deleted,
\* else when remove_devices_filter returns.
process_ports_added ==
    /\ \/ pc = "process_ports" /\ deleted_ports = {}
          /\ sg_log' = <<SetupCall(added_snapshot(added_ports)[1], updated_ports)>>
          /\ cycle_start' = [ran |-> TRUE, added |-> added_ports,
                             deleted |-> deleted_ports]
       \/ pc = "remove_filter"
          /\ sg_log' = Append(sg_log,
                          SetupCall(added_snapshot(added_ports)[1], updated_ports))
          /\ UNCHANGED cycle_start
    /\ possible_ports' = added_snapshot(added_ports)[1]
    /\ added_ports' = added_snapshot(added_ports)[2]
    /\ pc' = "setup_filters"
    /\ lastOp' = Op("setup_port_filters", NoPort, "ok")
    /\ UNCHANGED <<known_ports, updated_ports, deleted_ports, booked_ports,
                   flags, sync_locals, deleted_local, backend, released,
                   deleted_networks, sync_run, window, events_left>>
    /\ UNCHANGED network_map
    /\ UNCHANGED gone_ports
    /\ UNCHANGED revive_pending
    /\ UNCHANGED sync_history

\* process_ports, line 369, when setup_port_filters has returned; the loop
\* then goes to loop_count_and_wait.
process_ports_merge ==
    /\ pc = "setup_filters"
    /\ known_ports' = merge_known(known_ports, possible_ports)
    /\ possible_ports' = {}
    /\ deleted_local' = {}
    /\ window' = [p \in Ports |->
                    IF window[p] = "deleted" /\ p \in deleted_ports
                    THEN "deleted"
                    ELSE IF window[p] = "add_after_add_snap" /\ p \in added_ports
                         THEN "add_before" ELSE "none"]
    /\ pc' = "wait"
    /\ lastOp' = Op("process_ports_merge", NoPort, "ok")
    /\ UNCHANGED <<added_ports, updated_ports, deleted_ports, booked_ports,
                   flags, sync_locals, backend, sg_log, cycle_start, released,
                   deleted_networks, sync_run, events_left>>
    /\ UNCHANGED network_map
    /\ UNCHANGED gone_ports
    /\ UNCHANGED revive_pending
    /\ UNCHANGED sync_history

\* cycle_start holds added_ports and deleted_ports as process_ports found
\* them, from its first line until the iteration ends.
NoCycle == [ran |-> FALSE, added |-> {}, deleted |-> {}]

\* loop_count_and_wait: the sleep, then the iteration counter.
loop_count_and_wait ==
    /\ pc = "wait"
    /\ iter_num' = iter_num + 1
    /\ pc' = "loop"
    /\ sg_log' = <<>>
    /\ cycle_start' = NoCycle
    /\ lastOp' = Op("loop_count_and_wait", NoPort, "ok")
    /\ UNCHANGED <<tracker, fullsync, run_daemon_loop, force_polling,
                   sync_locals, cycle_locals, backend, released,
                   deleted_networks, sync_run, window, events_left>>
    /\ UNCHANGED network_map
    /\ UNCHANGED gone_ports
    /\ UNCHANGED revive_pending
    /\ UNCHANGED sync_history

\* What a blocking call of the iteration can do, besides returning: the
\* backend calls fail once their retries are used up, the control-plane RPC
\* and the security-group calls can fail as well.
CallOutcomes == {"returns", "raises"}

\* rpc_loop, lines 314-333: no statement of the loop body is inside a try
\* block (nor is the call of rpc_loop in daemon_loop, lines 306-308), so
\* an exception raised by a call of the iteration leaves rpc_loop.
call_raises ==
    /\ pc \in YieldPcs \ {"wait"}
    /\ events_left > 0
    /\ "raises" \in CallOutcomes
    /\ pc' = "raised"
    /\ lastOp' = Op("rpc_loop", NoPort, "raised")
    /\ events_left' = events_left - 1
    /\ UNCHANGED <<tracker, flags, sync_locals, cycle_locals, backend, sg_log,
                   cycle_start, released, deleted_networks, sync_run, window>>
    /\ UNCHANGED network_map
    /\ UNCHANGED gone_ports
    /\ UNCHANGED revive_pending
    /\ UNCHANGED sync_history

\* ------------------------------------------------------------ specification
RECURSIVE SubsetsUpTo(_, _)
SubsetsUpTo(S, n) ==
    IF n = 0 THEN {{}}
    ELSE LET smaller == SubsetsUpTo(S, n - 1)
         IN smaller \cup {T \cup {x} : T \in smaller, x \in S}

\* The port inventories the mapped backends may hold when the agent
\* starts: at most n ports in all, names unique within a DVS (left over
\* from an earlier run of the agent: the tracker itself is not persisted).
InitInventories(mapped, n) ==
    {[d \in PhysNets |-> {s[2] : s \in {t \in T : t[1] = d}}] :
        T \in {U \in SubsetsUpTo(mapped \X PortRec, n) :
                 \A a, b \in U : (a[1] = b[1] /\ a[2].name = b[2].name
                                  /\ a[2].name # NoName) => a = b}}

Range(seq) == {seq[i] : i \in DOMAIN seq}

\* __init__, lines 83-96: empty tracker, fullsync set; the loop has not
\* started.
InitAgent ==
    /\ known_ports = {} /\ added_ports = {} /\ updated_ports = {}
    /\ deleted_ports = {} /\ booked_ports = {}
    /\ fullsync = TRUE /\ run_daemon_loop = TRUE /\ iter_num = 0
    /\ force_polling = FALSE
    /\ pc = "loop" /\ dvs_idx = 1 /\ connected_ports = {}
    /\ vsphere_not_connected_ports_maps = EmptyMaps
    /\ network_with_active_ports = EmptyActive
    /\ network_with_known_not_active_ports = EmptyKnownNotActive
    /\ neutron_ports = {} /\ release_todo = {}
    /\ deleted_local = {} /\ possible_ports = {}
    /\ portgroups = [d \in PhysNets |-> IF d \in Range(network_map) THEN Keys ELSE {}]
    /\ lastOp = Op("init", NoPort, "ok")
    /\ sg_log = <<>> /\ cycle_start = NoCycle
    /\ released = {} /\ deleted_networks = {} /\ sync_run = 0
    /\ window = [p \in Ports |-> "none"]
    /\ reported = [d \in PhysNets |-> {}]
    /\ lookup_log = <<>>
    /\ revive_pending = FALSE
    /\ gone_ports = {}

\* The whole agent over one mapped backend.
Init ==
    /\ network_map = <<"physnet1">>
    /\ dvs_ports \in InitInventories(Range(network_map), MaxInitPorts)
    /\ neutron_db \in [Ports -> {"none", "device"}]
    /\ events_left = MaxEvents
    /\ InitAgent

Loop ==
    \/ rpc_loop_enter
    \/ get_dvs_ports
    \/ clean_up_scan
    \/ clean_up_lookup
    \/ clean_up_release
    \/ clean_up_delete_networks
    \/ rpc_loop_has_updates
    \/ process_ports_deleted
    \/ process_ports_added
    \/ process_ports_merge
    \/ loop_count_and_wait

Handlers ==
    \/ \E p \in Ports : port_update(p)
    \/ \E p \in Ports : port_delete(p)
    \/ \E p \in Ports, d \in Range(network_map), kind \in BookSegmentKinds :
          book_port(p, d, kind)
    \/ \E p \in Ports, kind \in SegmentKinds : update_port_postcommit(p, kind)
    \/ \E p \in Ports, d \in Range(network_map), kind \in SegmentKinds :
          delete_port_postcommit(p, d, kind)
    \/ \E answer \in {"ok", "revived", "failed"} : report_state(answer)
    \/ handle_sigterm

World ==
    \/ \E p \in Ports, d \in PhysNets : vm_connect(p, d)
    \/ \E p \in Ports, st \in NeutronStates : neutron_change(p, st)

Next == Loop \/ Handlers \/ \E p \in Ports, d \in PhysNets : vm_connect(p, d)

Spec == Init /\ [][Next]_vars

\* The full sync and the cycles that follow it, over two mapped backends,
\* with the backends, the control plane and the heartbeat changing while
\* the loop is blocked.
InitSync ==
    /\ network_map = <<"physnet1", "physnet2">>
    /\ dvs_ports \in InitInventories(Range(network_map), MaxSyncInitPorts)
    /\ neutron_db \in [Ports -> NeutronStates]
    /\ events_left = MaxSyncEvents
    /\ InitAgent

NextSync ==
    \/ Loop
    \/ World
    \/ \E p \in Ports : port_delete(p)
    \/ \E answer \in {"ok", "revived", "failed"} : report_state(answer)

SpecSync == InitSync /\ [][NextSync]_vars

\* The same with nothing changing the backends or the control plane but
\* the agent itself: the heartbeat asks for further full syncs and
\* port_delete notifications only touch the tracker.
NextQuiet ==
    \/ Loop
    \/ \E p \in Ports : port_delete(p)
    \/ \E answer \in {"ok", "revived", "failed"} : report_state(answer)

SpecQuiet == InitSync /\ [][NextQuiet]_vars

\* The poll loop over one mapped backend with calls that can fail, the
\* heartbeat, the termination signal and the notifications.
NextFaults ==
    \/ Loop
    \/ call_raises
    \/ handle_sigterm
    \/ \E answer \in {"ok", "revived", "failed"} : report_state(answer)
    \/ \E p \in Ports : port_update(p)
    \/ \E p \in Ports : port_delete(p)

SpecFaults == Init /\ [][NextFaults]_vars

\* The same with the poll loop scheduled fairly: rpc_loop is a thread of
\* its own that runs whenever the call it is blocked in has returned.
SpecFaultsFair == Init /\ [][NextFaults]_vars /\ WF_vars(Loop)

\* ------------------------------------------------------------ claims
\* The port identifiers a control-plane answer carries, in either list.
ReturnedIds(answer) ==
    {e.port_id : e \in answer.devices \cup answer.failed_devices}

\* C1: in a run of the orphan cleanup, no port is released whose identifier
\* the control-plane lookup of that run returned (in devices or in
\* failed_devices) or which is in the connected ports the cleanup was given.
C1_NoRecognizedPortReleased ==
    \A r \in released :
        /\ r[2] \notin connected_ports
        /\ \A i \in DOMAIN lookup_log : r[2] \notin ReturnedIds(lookup_log[i].answer)

\* C1 witness: a cleanup that released one port while its lookup
\* recognized the other one.
C1_Witness ==
    /\ released # {}
    /\ \E i \in DOMAIN lookup_log :
          ReturnedIds(lookup_log[i].answer) \cap Ports # {}

SetupCalls == {i \in DOMAIN sg_log : sg_log[i].call = "setup_port_filters"}

\* C2: in a cycle of process_ports that found deleted ports pending,
\* remove_devices_filter is called first, with the snapshot of those
\* ports, and at that moment deleted_ports holds none of them;
\* setup_port_filters is the last call of the cycle and is called once.
C2_DeleteBeforeAdd ==
    /\ \A i \in SetupCalls : i = Len(sg_log)
    /\ (cycle_start.ran /\ cycle_start.deleted # {}) =>
          /\ sg_log # <<>>
          /\ sg_log[1] = RemoveCall(cycle_start.deleted)
    /\ lastOp.op = "remove_devices_filter" =>
          /\ sg_log = <<RemoveCall(deleted_local)>>
          /\ deleted_ports \cap deleted_local = {}
    /\ (pc = "wait" /\ cycle_start.ran) => Cardinality(SetupCalls) = 1

\* C2 witness: setup_port_filters is being called after
\* remove_devices_filter returned in the same cycle.
C2_Witness ==
    /\ pc = "setup_filters"
    /\ Len(sg_log) = 2
    /\ sg_log[1].call = "remove_devices_filter"
    /\ sg_log[1].ports # {}

\* C3: known_ports, added_ports and deleted_ports are pairwise disjoint
\* whenever process_ports starts.
C3_DisjointAtCycleStart ==
    pc = "process_ports" =>
        /\ known_ports \cap added_ports = {}
        /\ known_ports \cap deleted_ports = {}
        /\ added_ports \cap deleted_ports = {}

\* C4 as claimed: every step that changes known_ports is the merge of
\* process_ports, and port_update and port_delete leave known_ports alone.
C4_OnlyProcessPortsWritesKnown ==
    [][/\ (known_ports' # known_ports) =>
              /\ lastOp'.op = "process_ports_merge"
              /\ known_ports' = known_ports \cup possible_ports
       /\ (lastOp'.op \in {"port_update", "port_delete"}) =>
              known_ports' = known_ports]_vars

\* C4 as amended: known_ports is written by the merge of process_ports,
\* which only adds the added snapshot of its cycle, and by port_delete(p),
\* which removes exactly p and puts it into deleted_ports in the same step;
\* nothing else, port_update included, changes known_ports.
C4_KnownWriters ==
    [][/\ (known_ports' # known_ports) =>
              \/ /\ lastOp'.op = "process_ports_merge"
                 /\ known_ports' = known_ports \cup possible_ports
              \/ /\ lastOp'.op = "port_delete"
                 /\ known_ports' = known_ports \ {lastOp'.port}
                 /\ lastOp'.port \in deleted_ports'
       /\ (lastOp'.op = "port_update") => known_ports' = known_ports]_vars

\* C4 witness: port_delete has just taken a port out of a known set that
\* an earlier merge had filled with two ports.
C4_Witness ==
    /\ lastOp.op = "port_delete"
    /\ lastOp.port \in deleted_ports
    /\ known_ports # {}

\* C5: right after port_delete(p), p is neither in known_ports nor in
\* added_ports, and deleted_ports has gained p exactly when p was in
\* known_ports before the call (it is otherwise unchanged).
C5_DeleteWinsOverPendingAdd ==
    [][(lastOp'.op = "port_delete") =>
          LET p == lastOp'.port IN
          /\ p \notin known_ports'
          /\ p \notin added_ports'
          /\ deleted_ports' = IF p \in known_ports
                              THEN deleted_ports \cup {p} ELSE deleted_ports
          /\ known_ports' = known_ports \ {p}
          /\ added_ports' = added_ports \ {p}]_vars

\* C5 witness: port_delete has moved the only known port to
\* deleted_ports while the other port is still pending in added_ports.
C5_Witness ==
    /\ lastOp.op = "port_delete"
    /\ lastOp.port \in deleted_ports
    /\ known_ports = {}
    /\ added_ports # {}

\* The step is update_port_postcommit for p on a resolved segment.
PostcommitOf(p) ==
    /\ lastOp'.op = "update_port_postcommit"
    /\ lastOp'.port = p
    /\ lastOp'.result = "ok"

\* C6 as claimed: a booked identifier enters added_ports only through
\* update_port_postcommit for it, which takes it out of booked_ports; no
\* other operation puts a still-booked identifier into added_ports.
C6_OnlyPostcommitAddsBooked ==
    [][\A p \in Ports :
          (p \in booked_ports /\ p \notin added_ports /\ p \in added_ports') =>
              (PostcommitOf(p) /\ p \notin booked_ports')]_vars

\* C6 as amended: a booked identifier leaves booked_ports only through
\* update_port_postcommit for it, which puts it into added_ports in the
\* same step, and an update_port_postcommit for an identifier that is not
\* booked adds nothing (one booking promotes once); a still-booked
\* identifier enters added_ports otherwise only through a full sync that
\* found it connected and not known, and it then stays booked.
C6_BookingPromotion ==
    [][\A p \in Ports :
          /\ (p \in booked_ports /\ p \notin added_ports /\ p \in added_ports') =>
                \/ PostcommitOf(p) /\ p \notin booked_ports'
                \/ /\ lastOp'.op = "full_sync_added"
                   /\ p \in connected_ports' \ known_ports
                   /\ p \in booked_ports'
          /\ (p \in booked_ports /\ p \notin booked_ports') =>
                (PostcommitOf(p) /\ p \in added_ports')
          /\ (PostcommitOf(p) /\ p \notin booked_ports) =>
                added_ports' = added_ports]_vars

\* C6 witness: update_port_postcommit has promoted a booked port that no
\* backend reported connected in the last full sync.
C6_Witness ==
    /\ lastOp.op = "update_port_postcommit"
    /\ lastOp.result = "ok"
    /\ lastOp.port \in added_ports \ booked_ports
    /\ lastOp.port \notin connected_ports
    /\ sync_run >= 1

\* C7: when a full sync sets added_ports, added_ports is exactly the union
\* of the connected port identifiers each mapped backend reported in this
\* sync, minus known_ports.
C7_FullSyncAdded ==
    lastOp.op = "full_sync_added" =>
        /\ connected_ports = UNION {reported[d] : d \in Range(network_map)}
        /\ added_ports = connected_ports \ known_ports

\* C7 witness: a full sync over two backends that each reported a
\* connected port, one of them already known (connected {p1, p2}, known
\* one of the two, added the other).
C7_Witness ==
    /\ lastOp.op = "full_sync_added"
    /\ \A d \in Range(network_map) : reported[d] # {}
    /\ connected_ports = Ports
    /\ Cardinality(known_ports) = 1
    /\ added_ports = Ports \ known_ports

\* C8: with nothing but the agent changing the backends and the control
\* plane, a full sync after the first one releases no port and deletes no
\* network container.
C8_SecondFullSyncChangesNothing ==
    sync_run >= 2 => (released = {} /\ deleted_networks = {})

\* The phases of window in which an add has followed a delete.
AddPhases == {"add_before", "add_after_del_snap", "add_after_add_snap"}

C10_UpdatedNeverPromoted ==
    [][/\ lastOp'.op = "setup_port_filters" =>
            /\ sg_log'[Len(sg_log')] = SetupCall(added_ports, updated_ports)
            /\ known_ports' = known_ports
            /\ (pc = "process_ports" /\ added_ports = {}) =>
                   sg_log' = <<SetupCall({}, updated_ports)>>
       /\ lastOp'.op = "process_ports_merge" =>
            /\ known_ports' = known_ports \cup sg_log[Len(sg_log)].ports
            /\ (cycle_start.added = {} /\ cycle_start.deleted = {}) =>
                   known_ports' = known_ports]_vars

\* A cycle that started with added and deleted empty has ended, it called
\* setup_port_filters with no new port and an updated port, and that port
\* is not in known.
C10_Witness ==
    /\ lastOp.op = "process_ports_merge"
    /\ cycle_start.ran /\ cycle_start.added = {} /\ cycle_start.deleted = {}
    /\ Len(sg_log) = 1 /\ sg_log[1].ports = {}
    /\ \E p \in sg_log[1].updated : p \in updated_ports /\ p \notin known_ports

\* The port-processing hooks.
PortHooks == {"book_port", "update_port_postcommit", "delete_port_postcommit"}

\* C11: a port-processing hook given a VLAN segment whose physical network
\* has no mapped DVS ends with InvalidSystemState, never with the raw
\* NoDVSForPhysicalNetwork, and makes no backend call and leaves booked,
\* added and known as they were.
C11_UnmappedRaisesInvalidSystemState ==
    [][(lastOp'.op \in PortHooks
          /\ lastOp'.result \in {"NoDVSForPhysicalNetwork", "InvalidSystemState"})
         => /\ lastOp'.result = "InvalidSystemState"
            /\ UNCHANGED <<dvs_ports, booked_ports, added_ports, known_ports>>]_vars

\* rpc_loop has returned or has been left by an exception.
LoopEnded == pc \in {"done", "raised"}

\* C12: a failure raised inside a poll iteration does not end the poll
\* loop; the loop has ended only when the run flag has been cleared.
C12_LoopEndsOnlyWhenFlagCleared ==
    LoopEnded => ~run_daemon_loop

\* C13: nothing is dropped from the pending adds: an identifier leaves
\* added_ports only by a port_delete for it or by the snapshot that passes
\* it to setup_port_filters as a new port; a full sync discards none.
C13_NoPendingAddDropped ==
    [][\A p \in added_ports \ added_ports' :
          \/ lastOp'.op = "port_delete" /\ lastOp'.port = p
          \/ /\ lastOp'.op = "setup_port_filters"
             /\ p \in sg_log'[Len(sg_log')].ports]_vars

\* C14: the pending sets drain: a cycle of process_ports during which
\* nothing new arrives ends with added, updated and deleted empty, so that
\* the work-pending condition no longer holds on their account.
C14_CycleDrainsPendingSets ==
    [][(/\ lastOp'.op = "process_ports_merge"
        /\ updated_ports = sg_log[Len(sg_log)].updated
        /\ added_ports = {} /\ deleted_ports = {})
         => (/\ added_ports' = {} /\ updated_ports' = {} /\ deleted_ports' = {}
             /\ ~agent_has_updates(FALSE)')]_vars

\* C15: once the termination signal has cleared the run flag, the poll
\* loop starts no new iteration, and the iteration in flight goes on to
\* its end, after which the loop terminates (or a call of it fails).
C15_Shutdown ==
    /\ [][~run_daemon_loop => ~(pc = "loop" /\ pc' \notin {"loop", "done"})]_vars
    /\ [][(~run_daemon_loop /\ pc' = "done") => pc = "loop"]_vars
    /\ (~run_daemon_loop ~> LoopEnded)

\* The signal arrived in the first iteration, whose full sync and cycle
\* were carried through, and the loop has returned.
C15_Witness ==
    /\ pc = "done" /\ ~run_daemon_loop
    /\ iter_num = 1 /\ sync_run = 1 /\ ~fullsync
    /\ known_ports # {}

\* C16: an iteration that begins with fullsync set runs the full sync and
\* then, whatever updated_ports and deleted_ports hold, process_ports; the
\* end of the full sync clears fullsync, and only a revived heartbeat sets
\* it again before the iteration ends.
C16_FullSyncThenProcessPorts ==
    /\ [][(pc = "loop" /\ fullsync /\ run_daemon_loop /\ pc' # pc)
            => pc' = "get_ports_ids"]_vars
    /\ [][(lastOp'.op = "delete_networks" /\ pc' = "has_updates")
            => ~fullsync']_vars
    /\ [][(lastOp.op = "delete_networks" /\ pc = "has_updates" /\ pc' # pc)
            => pc' = "process_ports"]_vars
    /\ [][(~fullsync /\ fullsync')
            => (lastOp'.op = "report_state" /\ lastOp'.result = "revived")]_vars

\* The first iteration has run its full sync and is in process_ports with
\* nothing updated and nothing deleted, fullsync cleared.
C16_Witness ==
    /\ iter_num = 0 /\ sync_run = 1 /\ ~fullsync
    /\ pc = "setup_filters" /\ cycle_start.ran
    /\ cycle_start.deleted = {} /\ updated_ports = {}
    /\ connected_ports # {}

\* C17: a revived heartbeat is not lost: from the moment the AGENT_REVIVED
\* answer is received until the port query of a full sync starts, fullsync
\* stays set, also when a full sync already in progress comes to its end.
C17_ReviveNotLost ==
    revive_pending => fullsync

\* C18: a port_delete(p) dispatched while a cycle is in flight, after the
\* added snapshot that holds p was taken and before it is merged, is not
\* lost: with no later event for p, the cycle ends with p not in known.
C18_DeleteDuringCycleNotLost ==
    [][lastOp'.op = "process_ports_merge" =>
         \A p \in Ports :
            (window[p] = "deleted" /\ p \in sg_log[Len(sg_log)].ports)
               => p \notin known_ports']_vars

\* C19: the active group keys given to a backend's
\* delete_networks_without_active_ports are exactly the keys of its ports
\* that are in the connected ports and of its non-connected ports that the
\* control plane recognized; the key of a container whose only ports were
\* released in this pass is not among them.
C19_ActiveKeysExact ==
    pc = "delete_networks" =>
       LET d == network_map[dvs_idx]
       IN network_with_active_ports[d] =
             {r.portgroupKey :
                r \in {q \in dvs_ports[d] :
                         /\ q.name # NoName
                         /\ q.name \in connected_ports \cup neutron_ports}}

\* The named, non-connected ports the scan of this pass found on DVS d.
NotConnectedOn(d) == DOMAIN network_with_known_not_active_ports[d]

\* C20: when the releases of a pass are over, every named non-connected
\* port that the lookup did not return has been released on each DVS that
\* reported it; the control plane was asked at most once, for exactly the
\* non-connected identifiers, and not at all when there were none.
C20_OrphansReleasedEverywhere ==
    pc = "delete_networks" =>
       LET asked == UNION {NotConnectedOn(d) : d \in Range(network_map)}
       IN /\ \A d \in Range(network_map) :
                \A p \in NotConnectedOn(d) :
                   p \notin neutron_ports => <<d, p>> \in released
          /\ Len(lookup_log) <= 1
          /\ asked = {} <=> lookup_log = <<>>
          /\ lookup_log # <<>> => lookup_log[1].query = asked

\* C21: once port_delete(p) has been ingested, no cycle passes p to
\* setup_port_filters, as a new port or as an updated port, unless a
\* port_update, a booking promotion or a full-sync observation of p has
\* come after that delete.
C21_NoStaleFilterResurrected ==
    [][lastOp'.op = "setup_port_filters" =>
         LET call == sg_log'[Len(sg_log')]
         IN (call.ports \cup call.updated) \cap gone_ports = {}]_vars

====
